---- MODULE Spec2Model ----
(***************************************************************************)
(* Model of the Real Estate Deal Analyst tools                              *)
(* (src/real_estate_agent/agent.py) and of the start-up of its Streamlit   *)
(* front end (src/ui.py).                                                   *)
(*                                                                         *)
(* Conventions.                                                             *)
(*  - A Python string whose characters matter (keyword, address,            *)
(*    preferred_source) is a sequence of one-character strings.             *)
(*  - An optional Python value is None (the empty sequence) or Some(x).     *)
(*  - A JSON field of a PropertyRecord is the token Null or a value token.  *)
(*  - Money is an integer number of mills (1/1000 of a dollar) on input     *)
(*    and an integer number of cents after round(x, 2).                     *)
(***************************************************************************)
EXTENDS Integers, Sequences, FiniteSets, TLC

VARIABLES
    env,               \* os.environ, restricted to the API keys
    secrets,           \* st.secrets, restricted to the API keys
    has_secrets,       \* hasattr(st, "secrets")
    ATTOM_API_KEY,     \* agent.py module global, read once at import
    ESTATED_API_KEY,   \* agent.py module global, read once at import
    ATTOM_KEY_SET,     \* ui.py module global
    ESTATED_KEY_SET,   \* ui.py module global
    uiPc,              \* position in ui.py's module body
    pc,                \* position in find_comps
    keyword,           \* find_comps argument (optional string)
    max_results,       \* find_comps argument (optional integer)
    preferred_source,  \* find_comps argument (string)
    limited,           \* find_comps local: the clamped limit
    provider_order,    \* find_comps local: the resolver order
    idx,               \* find_comps local: position of the for loop
    attempts,          \* what the loop did so far, one entry per provider
    tableRead,         \* whether _load_comps() ran in this call
    result,            \* the envelope find_comps returned
    error,             \* the exception find_comps raised
    calc               \* the last calculator call: arguments and outcome

vars == <<env, secrets, has_secrets, ATTOM_API_KEY, ESTATED_API_KEY,
          ATTOM_KEY_SET, ESTATED_KEY_SET, uiPc, pc, keyword, max_results,
          preferred_source, limited, provider_order, idx, attempts,
          tableRead, result, error, calc>>

uiVars == <<env, secrets, has_secrets, ATTOM_API_KEY, ESTATED_API_KEY,
            ATTOM_KEY_SET, ESTATED_KEY_SET, uiPc>>

callVars == <<pc, keyword, max_results, preferred_source, limited,
              provider_order, idx, attempts, tableRead, result, error>>

(***************************************************************************)
(* Bounds of the model.                                                     *)
(***************************************************************************)
\* Longest property list an ATTOM response carries.
MaxProps == 11
\* Number of rows of the reference table.
TableLen == 15

(***************************************************************************)
(* Python values.                                                           *)
(***************************************************************************)
None == <<>>
Some(x) == <<x>>
IsNone(o) == Len(o) = 0
Null == "null"

\* Truthiness of an optional string: None and "" are falsy.
TruthyStr(o) == ~IsNone(o) /\ o[1] # ""

Min(S) == CHOOSE x \in S : \A y \in S : x <= y
Max(S) == CHOOSE x \in S : \A y \in S : x >= y

UpperCase == <<"A","B","C","D","E","F","G","H","I","J","K","L","M",
               "N","O","P","Q","R","S","T","U","V","W","X","Y","Z">>
LowerCase == <<"a","b","c","d","e","f","g","h","i","j","k","l","m",
               "n","o","p","q","r","s","t","u","v","w","x","y","z">>
Whitespace == {" "}

\* str.lower(), character by character.
LowerChar(c) ==
    IF \E i \in 1..Len(UpperCase) : UpperCase[i] = c
    THEN LowerCase[CHOOSE i \in 1..Len(UpperCase) : UpperCase[i] = c]
    ELSE c

Lower(s) == [i \in 1..Len(s) |-> LowerChar(s[i])]

\* str.strip(): drop leading and trailing whitespace.
Strip(s) ==
    LET keep == {i \in 1..Len(s) : s[i] \notin Whitespace}
    IN  IF keep = {} THEN <<>> ELSE SubSeq(s, Min(keep), Max(keep))

\* needle in hay
Contains(hay, needle) ==
    \E i \in 0..(Len(hay) - Len(needle)) :
        SubSeq(hay, i + 1, i + Len(needle)) = needle

\* seq[:n] for n >= 0
Take(seq, n) == SubSeq(seq, 1, IF n < Len(seq) THEN n ELSE Len(seq))

(***************************************************************************)
(* agent.py: constants and helpers.                                         *)
(***************************************************************************)
MAX_RESULTS_HARD_LIMIT == 10

\* Mutant of _clamp_max_results: the hard ceiling is forgotten.
clamp_no_ceiling(mr) ==
    IF IsNone(mr) \/ mr[1] = 0 \/ mr[1] < 1 THEN 3 ELSE mr[1]

\* _clamp_max_results
clamp_max_results(mr) ==
    IF IsNone(mr) \/ mr[1] = 0 \/ mr[1] < 1
    THEN 3
    ELSE IF mr[1] < MAX_RESULTS_HARD_LIMIT THEN mr[1] ELSE MAX_RESULTS_HARD_LIMIT

S_auto == <<"a","u","t","o">>
S_attom == <<"a","t","t","o","m">>
S_estated == <<"e","s","t","a","t","e","d">>
S_demo == <<"d","e","m","o">>

\* _provider_priority
provider_priority(preferred) ==
    LET lowered == Lower(preferred)
        p == IF lowered \notin {S_auto, S_attom, S_estated, S_demo}
             THEN S_auto ELSE lowered
    IN  IF p = S_attom THEN <<"attom", "estated", "demo">>
        ELSE IF p = S_estated THEN <<"estated", "attom", "demo">>
        ELSE IF p = S_demo THEN <<"demo">>
        ELSE <<"attom", "estated", "demo">>

\* A PropertyRecord.
Rec(address, city, state, beds, baths, sqft, price, list_date) ==
    [address |-> address, city |-> city, state |-> state, beds |-> beds,
     baths |-> baths, sqft |-> sqft, price |-> price, list_date |-> list_date]

Envelope(count, source, results) ==
    [count |-> count, source |-> source, results |-> results]

NoResult == Envelope(0, "none", <<>>)

\* What a _fetch_* helper does: return None, return an envelope, or raise.
RetNone == [kind |-> "none", envelope |-> NoResult, error |-> "none"]
RetEnvelope(e) == [kind |-> "envelope", envelope |-> e, error |-> "none"]
Raise(exc) == [kind |-> "raise", envelope |-> NoResult, error |-> exc]

\* Truthiness of a price: None, 0 and "" are falsy.
TruthyPrice(p) == p \notin {Null, "0", ""}

(***************************************************************************)
(* What requests.get(...), raise_for_status() and json() can produce.       *)
(* status "exception" stands for a transport error, a timeout, an HTTP      *)
(* error status and an unparsable body alike: all raise inside the try.     *)
(* A field is "missing" (key absent), "null" (JSON null; for a field the    *)
(* code calls .get on, any non-mapping value behaves the same), or a        *)
(* mapping/list of the named shape.                                         *)
(***************************************************************************)
EstatedResp(status, payload, data, valuation, address, structure, sales) ==
    [status |-> status, payload |-> payload, data |-> data,
     valuation |-> valuation, address |-> address, structure |-> structure,
     sales |-> sales]

EstatedResponses ==
    {EstatedResp("exception", "-", "-", "-", "-", "-", "-"),
     EstatedResp("ok", "nonmap", "-", "-", "-", "-", "-")}
    \cup {EstatedResp("ok", "map", d, "-", "-", "-", "-") :
            d \in {"missing", "null", "empty", "nonmap"}}
    \cup {EstatedResp("ok", "map", "map", v, a, s, sl) :
            v \in {"missing", "null", "novalue", "zero", "value"},
            a \in {"missing", "null", "map"},
            s \in {"missing", "null", "map"},
            sl \in {"missing", "null", "empty", "one", "nullitem"}}

AttomResp(status, payload, property, props) ==
    [status |-> status, payload |-> payload, property |-> property,
     props |-> props]

\* The kinds of item of an ATTOM property list:
\*   priced    a mapping with address, building, summary and sale.amount
\*   unpriced  the same without a sale
\*   bare      a mapping whose address, building, summary and sale are null
\*   sizenull  a mapping whose building.size is null
\*   nonmap    not a mapping (null, a string, a number)
AttomKinds == {"priced", "unpriced", "bare", "sizenull", "nonmap"}

\* n items of kind base, the k-th replaced by an item of kind special.
MkProps(n, base, k, special) ==
    [i \in 1..n |-> IF i = k THEN special ELSE base]

AttomLists ==
    {MkProps(n, b, k, s) :
        n \in 1..MaxProps, b \in {"priced", "unpriced"},
        k \in {1, 2, MaxProps}, s \in AttomKinds}

AttomResponses ==
    {AttomResp("exception", "-", "-", <<>>),
     AttomResp("ok", "nonmap", "-", <<>>)}
    \cup {AttomResp("ok", "map", p, <<>>) :
            p \in {"missing", "null", "empty", "nonlist"}}
    \cup {AttomResp("ok", "map", "list", l) : l \in AttomLists}

RemoteAddress == <<"9", " ", "E", "l", "m", " ", "S", "t">>

\* _format_address
format_address(resp) ==
    IF resp.address = "map" THEN RemoteAddress ELSE <<>>

\* _fetch_estated
fetch_estated(resp, max) ==
    IF ~TruthyStr(ESTATED_API_KEY) THEN RetNone
    ELSE IF resp.status = "exception" THEN RetNone
    ELSE IF resp.payload = "nonmap" THEN Raise("AttributeError")
    ELSE IF resp.data \in {"missing", "null", "empty"} THEN RetNone
    ELSE IF resp.data = "nonmap" THEN Raise("AttributeError")
    ELSE IF resp.valuation = "null" THEN Raise("AttributeError")
    ELSE IF resp.address = "null" THEN Raise("AttributeError")
    ELSE IF resp.structure = "null" THEN Raise("AttributeError")
    ELSE IF resp.sales = "nullitem" THEN Raise("AttributeError")
    ELSE
        LET price == IF resp.valuation = "value" THEN "v"
                     ELSE IF resp.valuation = "zero" THEN "0" ELSE Null
            a == IF resp.address = "map" THEN "v" ELSE Null
            s == IF resp.structure = "map" THEN "v" ELSE Null
            primary == Rec(format_address(resp), a, a, s, s, s, price,
                           IF resp.sales = "one" THEN "v" ELSE Null)
        IN  RetEnvelope(Envelope(IF TruthyPrice(price) THEN 1 ELSE 0,
                                 "estated",
                                 IF TruthyPrice(price) THEN <<primary>> ELSE <<>>))

\* The record _fetch_attom builds from one item of the property list.
attom_record(kind) ==
    IF kind = "priced"
    THEN Rec(RemoteAddress, "v", "v", "v", "v", "v", "v", "v")
    ELSE IF kind = "unpriced"
    THEN Rec(RemoteAddress, "v", "v", "v", "v", "v", Null, "v")
    ELSE Rec(<<>>, Null, Null, Null, Null, Null, Null, Null)

\* _fetch_attom
fetch_attom(resp, max) ==
    IF ~TruthyStr(ATTOM_API_KEY) THEN RetNone
    ELSE IF resp.status = "exception" THEN RetNone
    ELSE IF resp.payload = "nonmap" THEN Raise("AttributeError")
    ELSE IF resp.property \in {"missing", "null", "empty"} THEN RetNone
    ELSE IF resp.property = "nonlist" THEN Raise("TypeError")
    ELSE
        LET props == Take(resp.props, max)
        IN  IF props = <<>> THEN RetNone
            ELSE IF \E i \in 1..Len(props) : props[i] \in {"sizenull", "nonmap"}
            THEN Raise("AttributeError")
            ELSE RetEnvelope(Envelope(Len(props), "attom",
                    [i \in 1..Len(props) |-> attom_record(props[i])]))

(***************************************************************************)
(* The reference table (data/comps.csv, read by _load_comps).  Its rows     *)
(* are data: TableLen rows cycle through four addresses, three of which     *)
(* contain "abc" in some case, so that a keyword can match more rows than   *)
(* the hard limit; every seventh row has an empty price column.             *)
(***************************************************************************)
TableAddresses ==
    << <<"1", "2", " ", "A", "b", "c">>,
       <<"7", " ", "a", "b", "c", " ", "d">>,
       <<"9", " ", "b", "c", "a">>,
       <<"A", "B", "C", " ", "x">> >>

\* _load_comps
load_comps ==
    [i \in 1..TableLen |->
        Rec(TableAddresses[((i - 1) % Len(TableAddresses)) + 1],
            "Forney", "TX", "3", "2", "1500",
            IF i % 7 = 0 THEN "" ELSE "v", "2024-01-01")]

\* Mutant of the fallback: the match is case-sensitive.
table_lookup_case_sensitive(kw, lim) ==
    LET matches == SelectSeq(load_comps, LAMBDA c : Contains(c.address, kw))
        top == Take(matches, lim)
    IN  Envelope(Len(top), "demo_csv", top)

\* Lines 86-90 of find_comps: the reference-table fallback.
table_lookup(kw, lim) ==
    LET comps == load_comps
        keyword_lower == Lower(kw)
        matches == SelectSeq(comps,
                       LAMBDA c : Contains(Lower(c.address), keyword_lower))
        top == Take(matches, lim)
    IN  Envelope(Len(top), "demo_csv", top)

(***************************************************************************)
(* Inputs.                                                                  *)
(***************************************************************************)
\* Values of an API key in the environment or in the secrets.
KeyValues == {None, Some(""), Some("k")}

Keywords ==
    {None, Some(<<>>), Some(<<"a", "b">>), Some(<<" ", " ", "a", "b", " ">>),
     Some(<<"a", "b", "c">>), Some(<<"A", "B", "C">>),
     Some(<<" ", "a", "b", "c">>), Some(<<"b", "C", "a">>),
     Some(<<"x", "y", "z">>)}

MaxResultsInputs ==
    {None, Some(-2), Some(0), Some(1), Some(2), Some(10), Some(11), Some(999)}

PreferredInputs ==
    {S_auto, S_attom, S_estated, S_demo,
     <<"E", "s", "t", "a", "t", "e", "d">>, <<"D", "E", "M", "O">>,
     <<"z", "i", "l", "l", "o", "w">>}

\* What the Streamlit widgets of main() can hand to find_comps.
UiAddresses ==
    {<<>>, <<"a", "b">>, <<"a", "b", "c">>, <<"x", "y", "z">>}
UiMaxComps == {1, 3, 10}
UiProviders == {S_auto, S_attom, S_estated, S_demo}

(***************************************************************************)
(* Start-up: the module bodies of agent.py and ui.py.                       *)
(***************************************************************************)
\* os.getenv
getenv(key) == env[key]

\* agent.py lines 19-20, run when the module is first imported: by the ADK
\* runner, or by line 13 of ui.py.
ImportAgent ==
    /\ pc = "unloaded"
    /\ uiPc \in {"none", "start"}
    /\ ESTATED_API_KEY' = getenv("ESTATED_API_KEY")
    /\ ATTOM_API_KEY' = getenv("ATTOM_API_KEY")
    /\ pc' = "idle"
    /\ uiPc' = IF uiPc = "start" THEN "imported" ELSE uiPc
    /\ UNCHANGED <<env, secrets, has_secrets, ATTOM_KEY_SET, ESTATED_KEY_SET,
                   keyword, max_results, preferred_source, limited,
                   provider_order, idx, attempts, tableRead, result, error,
                   calc>>

\* The environment after _hydrate_env_from_streamlit_secrets().
hydrated_env ==
    IF ~has_secrets THEN env
    ELSE [key \in DOMAIN env |->
            IF TruthyStr(secrets[key]) THEN secrets[key] ELSE env[key]]

\* ui.py line 29
Hydrate ==
    /\ uiPc = "imported"
    /\ env' = hydrated_env
    /\ uiPc' = "hydrated"
    /\ UNCHANGED <<secrets, has_secrets, ATTOM_API_KEY, ESTATED_API_KEY,
                   ATTOM_KEY_SET, ESTATED_KEY_SET, calc>>
    /\ UNCHANGED callVars

\* ui.py lines 31-32
ReadFlags ==
    /\ uiPc = "hydrated"
    /\ ATTOM_KEY_SET' = TruthyStr(getenv("ATTOM_API_KEY"))
    /\ ESTATED_KEY_SET' = TruthyStr(getenv("ESTATED_API_KEY"))
    /\ uiPc' = "ready"
    /\ UNCHANGED <<env, secrets, has_secrets, ATTOM_API_KEY, ESTATED_API_KEY,
                   calc>>
    /\ UNCHANGED callVars

(***************************************************************************)
(* find_comps, one action per step.                                         *)
(***************************************************************************)
\* Mutant of the guard of line 68: the keyword is measured untrimmed.
invalid_keyword_untrimmed(kw) ==
    IsNone(kw) \/ kw[1] = <<>> \/ Len(kw[1]) < 3

\* The guard of line 68.
invalid_keyword(kw) ==
    IsNone(kw) \/ kw[1] = <<>> \/ Len(Strip(kw[1])) < 3

\* Lines 68-72: validation, clamp and resolver order.
find_comps_entry(kw, mr, ps) ==
    /\ keyword' = kw
    /\ max_results' = mr
    /\ preferred_source' = ps
    /\ attempts' = <<>>
    /\ tableRead' = FALSE
    /\ result' = NoResult
    /\ IF invalid_keyword(kw)
       THEN /\ pc' = "raised"
            /\ error' = "ValueError"
            /\ UNCHANGED <<limited, provider_order, idx>>
       ELSE /\ limited' = clamp_max_results(mr)
            /\ provider_order' = provider_priority(ps)
            /\ idx' = 1
            /\ pc' = "loop"
            /\ error' = "none"
    /\ UNCHANGED <<calc>>

\* A tool call made by the agent runner.
FindComps ==
    /\ uiPc = "none"
    /\ pc = "idle"
    /\ \E kw \in Keywords, mr \in MaxResultsInputs, ps \in PreferredInputs :
          find_comps_entry(kw, mr, ps)
    /\ UNCHANGED uiVars

\* ui.py line 92, in the handler of the Analyze button.
UiAnalyze ==
    /\ uiPc = "ready"
    /\ pc = "idle"
    /\ \E a \in UiAddresses, m \in UiMaxComps, p \in UiProviders :
          find_comps_entry(Some(a), Some(m), p)
    /\ UNCHANGED uiVars

provider == provider_order[idx]

Attempt(source, outcome) == [source |-> source, outcome |-> outcome]

\* The outcome of one _fetch_* call inside the loop (lines 76-78, 80-82).
AfterFetch(source, ret) ==
    /\ attempts' = Append(attempts,
            Attempt(source, IF ret.kind = "none" THEN "miss"
                            ELSE IF ret.kind = "raise" THEN "raise"
                            ELSE "answer"))
    /\ IF ret.kind = "envelope"
       THEN /\ result' = ret.envelope
            /\ pc' = "returned"
            /\ UNCHANGED <<idx, error>>
       ELSE IF ret.kind = "raise"
       THEN /\ error' = ret.error
            /\ pc' = "raised"
            /\ UNCHANGED <<idx, result>>
       ELSE /\ idx' = idx + 1
            /\ UNCHANGED <<pc, result, error>>
    /\ UNCHANGED <<keyword, max_results, preferred_source, limited,
                   provider_order, tableRead, calc>>
    /\ UNCHANGED uiVars

\* Lines 75-78.
QueryAttom ==
    /\ pc = "loop"
    /\ provider = "attom"
    /\ TruthyStr(ATTOM_API_KEY)
    /\ \E resp \in AttomResponses :
          AfterFetch("attom", fetch_attom(resp, limited))

\* Lines 79-82.
QueryEstated ==
    /\ pc = "loop"
    /\ provider = "estated"
    /\ TruthyStr(ESTATED_API_KEY)
    /\ \E resp \in EstatedResponses :
          AfterFetch("estated", fetch_estated(resp, limited))

\* A remote provider whose key is falsy: no branch of the loop body is taken.
key_of(source) == IF source = "attom" THEN ATTOM_API_KEY ELSE ESTATED_API_KEY

SkipProvider ==
    /\ pc = "loop"
    /\ provider \in {"attom", "estated"}
    /\ ~TruthyStr(key_of(provider))
    /\ attempts' = Append(attempts, Attempt(provider, "skipped"))
    /\ idx' = idx + 1
    /\ UNCHANGED <<pc, keyword, max_results, preferred_source, limited,
                   provider_order, tableRead, result, error, calc>>
    /\ UNCHANGED uiVars

\* Lines 83-84: every resolver order ends with "demo", so the loop always
\* leaves through this break.
BreakAtDemo ==
    /\ pc = "loop"
    /\ provider = "demo"
    /\ pc' = "table"
    /\ UNCHANGED <<keyword, max_results, preferred_source, limited,
                   provider_order, idx, attempts, tableRead, result, error,
                   calc>>
    /\ UNCHANGED uiVars

\* Lines 86-90.
ReadTable ==
    /\ pc = "table"
    /\ tableRead' = TRUE
    /\ result' = table_lookup(keyword[1], limited)
    /\ pc' = "returned"
    /\ UNCHANGED <<keyword, max_results, preferred_source, limited,
                   provider_order, idx, attempts, error, calc>>
    /\ UNCHANGED uiVars

\* The caller takes the envelope or the exception; the next call starts anew.
Finish ==
    /\ pc \in {"returned", "raised"}
    /\ pc' = "idle"
    /\ keyword' = None
    /\ max_results' = None
    /\ preferred_source' = S_auto
    /\ limited' = 0
    /\ provider_order' = <<>>
    /\ idx' = 0
    /\ attempts' = <<>>
    /\ tableRead' = FALSE
    /\ result' = NoResult
    /\ error' = "none"
    /\ UNCHANGED <<calc>>
    /\ UNCHANGED uiVars

NoCalc == [op |-> "none"]

InitCall ==
    /\ pc = "unloaded"
    /\ keyword = None
    /\ max_results = None
    /\ preferred_source = S_auto
    /\ limited = 0
    /\ provider_order = <<>>
    /\ idx = 0
    /\ attempts = <<>>
    /\ tableRead = FALSE
    /\ result = NoResult
    /\ error = "none"
    /\ ATTOM_API_KEY = None
    /\ ESTATED_API_KEY = None
    /\ ATTOM_KEY_SET = FALSE
    /\ ESTATED_KEY_SET = FALSE
    /\ calc = NoCalc

KeyNames == {"ATTOM_API_KEY", "ESTATED_API_KEY"}

\* A process that serves the tools to the agent runner: no Streamlit.
Init ==
    /\ InitCall
    /\ uiPc = "none"
    /\ env \in [KeyNames -> KeyValues]
    /\ secrets = [k \in KeyNames |-> None]
    /\ has_secrets = FALSE

Next ==
    \/ ImportAgent
    \/ FindComps
    \/ QueryAttom
    \/ QueryEstated
    \/ SkipProvider
    \/ BreakAtDemo
    \/ ReadTable
    \/ Finish

Spec == Init /\ [][Next]_vars

\* A process started by "streamlit run ui.py".
InitUI ==
    /\ InitCall
    /\ uiPc = "start"
    /\ env \in [KeyNames -> KeyValues]
    /\ secrets \in [KeyNames -> KeyValues]
    /\ has_secrets \in BOOLEAN

NextUI ==
    \/ ImportAgent
    \/ Hydrate
    \/ ReadFlags
    \/ UiAnalyze
    \/ QueryAttom
    \/ QueryEstated
    \/ SkipProvider
    \/ BreakAtDemo
    \/ ReadTable
    \/ Finish

SpecUI == InitUI /\ [][NextUI]_vars

(***************************************************************************)
(* The calculators.  Arithmetic is exact: a quantity the code holds in a    *)
(* float is a fraction num/den of mills here, and round(x, 2) is rounding   *)
(* of the exact value to the nearest cent, ties to even (what Python's      *)
(* round does on the value it is given).  The input sets keep every         *)
(* product below 2^31.                                                      *)
(***************************************************************************)
Abs(x) == IF x < 0 THEN -x ELSE x

\* The integer nearest to num/den (den > 0), ties to even.
RoundHalfEven(num, den) ==
    LET q == num \div den
        rem == num % den
    IN  IF 2 * rem < den THEN q
        ELSE IF 2 * rem > den THEN q + 1
        ELSE IF q % 2 = 0 THEN q ELSE q + 1

\* round(x, 2) of x = num/den mills, in cents.
Round2(num, den) == RoundHalfEven(num, 10 * den)

RECURSIVE Gcd(_, _)
Gcd(a, b) == IF b = 0 THEN a ELSE Gcd(b, a % b)

RECURSIVE Pow(_, _)
Pow(b, n) == IF n = 0 THEN 1 ELSE b * Pow(b, n - 1)

\* Mutant of _require_positive: zero is rejected too.
require_strictly_positive(value) == value <= 0

\* _require_positive: whether it raises.
require_positive(value) == value < 0

MortgageArgs(price, down_payment, rate_percent, years, taxes_month, insurance_month, hoa_month, rent_month) ==
    [price |-> price, down_payment |-> down_payment,
     rate_percent |-> rate_percent, years |-> years,
     taxes_month |-> taxes_month, insurance_month |-> insurance_month,
     hoa_month |-> hoa_month, rent_month |-> rent_month]

\* Lines 108-123 of mortgage_summary: whether it raises ValueError.
mortgage_invalid(a) ==
    \/ \E v \in {a.price, a.down_payment, a.rate_percent, a.years,
                 a.taxes_month, a.insurance_month, a.hoa_month,
                 a.rent_month} : require_positive(v)
    \/ a.years < 1
    \/ a.down_payment > a.price

\* Mutant of line 125: the down payment is not subtracted.
loan_ignores_down(a) == a.price

\* Line 125.
loan_of(a) ==
    IF a.price - a.down_payment > 0 THEN a.price - a.down_payment ELSE 0

\* Lines 126-131: principal_interest as a fraction <<num, den>> of mills.
\* rate_percent is a whole number of percent, so r = rate_percent/1200 is
\* the fraction p/q in lowest terms and (1 + r)^n = (q + p)^n / q^n.
principal_interest(a) ==
    LET loan == loan_of(a)
        n == a.years * 12
    IN  IF a.rate_percent = 0
        THEN IF n # 0 THEN <<loan, n>> ELSE <<0, 1>>
        ELSE LET g == Gcd(a.rate_percent, 1200)
                 p == a.rate_percent \div g
                 q == 1200 \div g
                 growth == Pow(q + p, n)
                 unit == Pow(q, n)
             IN  <<loan * p * growth, q * (growth - unit)>>

\* Line 134: ltv in hundredths of a percent (round(ltv, 2) * 100).
ltv_percent(a) ==
    IF a.price # 0 THEN RoundHalfEven(loan_of(a) * 10000, a.price) ELSE 0

\* Lines 125-152 of mortgage_summary: the returned dictionary, money in cents.
mortgage_result(a) ==
    LET pi == principal_interest(a)
        extras == a.taxes_month + a.insurance_month + a.hoa_month
        monthly == <<pi[1] + extras * pi[2], pi[2]>>
        cashflow == IF a.rent_month # 0
                    THEN <<a.rent_month * pi[2] - monthly[1], pi[2]>>
                    ELSE <<-monthly[1], pi[2]>>
    IN  [price |-> Round2(a.price, 1),
         down_payment |-> Round2(a.down_payment, 1),
         loan_amount |-> Round2(loan_of(a), 1),
         ltv_percent |-> ltv_percent(a),
         principal_interest |-> Round2(pi[1], pi[2]),
         monthly_payment |-> Round2(monthly[1], monthly[2]),
         cashflow |-> Round2(cashflow[1], cashflow[2]),
         inputs |-> [rate_percent |-> a.rate_percent, years |-> a.years,
                     taxes_month |-> a.taxes_month,
                     insurance_month |-> a.insurance_month,
                     hoa_month |-> a.hoa_month, rent_month |-> a.rent_month]]

\* Money in mills.
Prices == {-1000, 0, 4, 3000, 100000}
DownPayments == {-1000, 0, 4, 1000, 3000, 100000}
\* Whole percent a year; 1200 is one whole unit a month.
Rates == {-1, 0, 1200}
Years == {-1, 0, 1}
MonthlyAmounts == {-10, 0, 350}

\* mortgage_summary
MortgageSummary ==
    /\ calc.op = "none"
    /\ \E price \in Prices, down \in DownPayments, rate \in Rates, years \in Years,
       taxes \in MonthlyAmounts, ins \in MonthlyAmounts, hoa \in MonthlyAmounts,
       rent \in MonthlyAmounts :
        LET a == MortgageArgs(price, down, rate, years, taxes, ins, hoa, rent)
        IN  /\ calc' = IF mortgage_invalid(a)
                       THEN [op |-> "mortgage_summary", args |-> a,
                             outcome |-> "raised", error |-> "ValueError"]
                       ELSE [op |-> "mortgage_summary", args |-> a,
                             outcome |-> "returned", res |-> mortgage_result(a)]
            /\ UNCHANGED uiVars
            /\ UNCHANGED callVars

\* rent_month in mills, target_cap_rate in hundredths of a percent,
\* expense_ratio in thousandths.
RentArgs(rent_month, target_cap_rate, expense_ratio) ==
    [rent_month |-> rent_month, target_cap_rate |-> target_cap_rate,
     expense_ratio |-> expense_ratio]

\* Mutant of lines 165-169: a cap rate of exactly 25 is rejected.
rent_invalid_cap_exclusive(a) ==
    \/ require_positive(a.rent_month)
    \/ ~(0 < a.target_cap_rate /\ a.target_cap_rate < 2500)
    \/ ~(0 <= a.expense_ratio /\ a.expense_ratio < 1000)

\* Lines 165-169 of rent_vs_price: whether it raises ValueError.
rent_invalid(a) ==
    \/ require_positive(a.rent_month)
    \/ ~(0 < a.target_cap_rate /\ a.target_cap_rate <= 2500)
    \/ ~(0 <= a.expense_ratio /\ a.expense_ratio < 1000)

\* Line 171: noi as a fraction <<num, den>> of mills.
noi_of(a) == <<a.rent_month * (1000 - a.expense_ratio) * 12, 1000>>

\* Line 172: implied_value as a fraction of mills; the cap rate c hundredths
\* of a percent is c/10000, and noi[1]/1000 / (c/10000) = 10 * noi[1] / c.
implied_value_of(a) == <<10 * noi_of(a)[1], a.target_cap_rate>>

\* Lines 171-179 of rent_vs_price: the returned dictionary, money in cents.
rent_result(a) ==
    [rent_month |-> Round2(a.rent_month, 1),
     noi |-> Round2(noi_of(a)[1], noi_of(a)[2]),
     implied_value |-> Round2(implied_value_of(a)[1], implied_value_of(a)[2]),
     target_cap_rate |-> a.target_cap_rate,
     expense_ratio |-> a.expense_ratio]

Rents == {-1000, 0, 4, 1000, 2400}
CapRates == {-100, 0, 1, 500, 700, 2500, 2501}
ExpenseRatios == {-1, 0, 333, 350, 999, 1000, 1500}

\* rent_vs_price
RentVsPrice ==
    /\ calc.op = "none"
    /\ \E rent \in Rents, cap \in CapRates, er \in ExpenseRatios :
        LET a == RentArgs(rent, cap, er)
        IN  /\ calc' = IF rent_invalid(a)
                       THEN [op |-> "rent_vs_price", args |-> a,
                             outcome |-> "raised", error |-> "ValueError"]
                       ELSE [op |-> "rent_vs_price", args |-> a,
                             outcome |-> "returned", res |-> rent_result(a)]
            /\ UNCHANGED uiVars
            /\ UNCHANGED callVars

\* A process in which only the two calculators are called.
InitCalc ==
    /\ InitCall
    /\ uiPc = "none"
    /\ env = [k \in KeyNames |-> None]
    /\ secrets = [k \in KeyNames |-> None]
    /\ has_secrets = FALSE

\* The caller takes the dictionary or the exception.
CalcDone ==
    /\ calc.op # "none"
    /\ calc' = NoCalc
    /\ UNCHANGED uiVars
    /\ UNCHANGED callVars

NextCalc ==
    \/ MortgageSummary
    \/ RentVsPrice
    \/ CalcDone

SpecCalc == InitCalc /\ [][NextCalc]_vars

(***************************************************************************)
(* The claims.                                                              *)
(***************************************************************************)
\* A find_comps call has ended, by a return or by an exception.
CallEnded == pc \in {"returned", "raised"}

\* The keyword without its surrounding whitespace, peeled from both ends.
RECURSIVE Trimmed(_)
Trimmed(s) ==
    IF s = <<>> THEN s
    ELSE IF Head(s) = " " THEN Trimmed(Tail(s))
    ELSE IF s[Len(s)] = " " THEN Trimmed(SubSeq(s, 1, Len(s) - 1))
    ELSE s

\* The limit the claims state: 3 when max_results is absent, zero or below
\* 1, min(max_results, 10) otherwise.
ClaimedLimit(mr) ==
    IF mr = None THEN 3
    ELSE IF mr[1] < 1 THEN 3
    ELSE IF mr[1] > 10 THEN 10 ELSE mr[1]

\* The resolver order the claims state for a preference.
ClaimedOrder(ps) ==
    LET low == Lower(ps)
    IN  IF low = S_estated THEN <<"estated", "attom", "demo">>
        ELSE IF low = S_demo THEN <<"demo">>
        ELSE <<"attom", "estated", "demo">>

Configured(source) ==
    \/ source = "attom" /\ TruthyStr(ATTOM_API_KEY)
    \/ source = "estated" /\ TruthyStr(ESTATED_API_KEY)

\* The sources queried so far in this call, in order.
Queried ==
    LET asked == SelectSeq(attempts, LAMBDA t : t.outcome # "skipped")
    IN  [i \in 1..Len(asked) |-> asked[i].source]

\* The queries the claim prescribes: the configured remote sources of the
\* order, up to and including the first one that answered.
PrescribedQueries ==
    LET conf == SelectSeq(ClaimedOrder(preferred_source), Configured)
        answered == {i \in 1..Len(conf) :
                        \E j \in 1..Len(attempts) :
                            /\ attempts[j].source = conf[i]
                            /\ attempts[j].outcome = "answer"}
    IN  IF answered = {} THEN conf ELSE SubSeq(conf, 1, Min(answered))

\* C1: a remote source answers a call only if its response yields a record
\* with a non-absent price: no returned envelope has source attom or estated
\* and no priced record.
C1_RemoteAnswerHasPricedRecord ==
    (pc = "returned" /\ result.source \in {"attom", "estated"})
        => \E i \in 1..Len(result.results) : result.results[i].price # Null

\* C2: find_comps never raises for a remote-source failure: a call that
\* raises raises invalid-input, whatever the remote response was.
C2_RaisesOnlyInvalidInput ==
    pc = "raised" => error = "ValueError"

\* C3: when a call with a valid keyword ends, the remote queries it issued
\* are exactly the configured remote sources of the resolver order, cut off
\* after the first source that answered.
C3_QueriesFollowResolverOrder ==
    (CallEnded /\ error # "ValueError") => Queried = PrescribedQueries

\* C4: find_comps raises invalid-input exactly when the trimmed keyword is
\* shorter than 3 characters (empty and absent included), and then before any
\* remote source is queried and before the reference table is read.
C4_InvalidInputIffShortKeyword ==
    pc \notin {"unloaded", "idle"} =>
        /\ (pc = "raised" /\ error = "ValueError")
              <=> (keyword = None \/ Len(Trimmed(keyword[1])) < 3)
        /\ error = "ValueError" => (attempts = <<>> /\ ~tableRead)

\* C4 witness: a keyword of five characters, two of them after trimming,
\* was rejected.
C4_Witness ==
    /\ pc = "raised"
    /\ error = "ValueError"
    /\ keyword # None
    /\ Len(keyword[1]) >= 3

\* C5: every returned envelope has count equal to the length of results and
\* at most the clamped limit, hence at most 10.
C5_CountWithinClampedLimit ==
    pc = "returned" =>
        /\ result.count = Len(result.results)
        /\ result.count <= ClaimedLimit(max_results)
        /\ result.count <= 10

\* C5 witness: a call asking for 999 results returned exactly 10.
C5_Witness ==
    /\ pc = "returned"
    /\ max_results = Some(999)
    /\ result.count = 10
    /\ Len(result.results) = 10

\* Whether the address contains the keyword, ignoring case.
MatchesKeyword(address, kw) ==
    \E off \in 0..(Len(address) - Len(kw)) :
        \A k \in 1..Len(kw) : LowerChar(address[off + k]) = LowerChar(kw[k])

\* The rows of the reference table that match the keyword of the call.
MatchingRows ==
    {i \in 1..TableLen : MatchesKeyword(load_comps[i].address, keyword[1])}

\* The j-th matching row, in table order.
NthMatch(j) ==
    CHOOSE i \in MatchingRows : Cardinality({m \in MatchingRows : m < i}) = j - 1

\* C6: a call that falls through to the reference table returns source
\* demo_csv and exactly the first (clamped limit) matching rows, in table
\* order, with count their number.
C6_FallbackIsFirstMatches ==
    (pc = "returned" /\ tableRead) =>
        LET want == IF Cardinality(MatchingRows) < ClaimedLimit(max_results)
                    THEN Cardinality(MatchingRows)
                    ELSE ClaimedLimit(max_results)
        IN  /\ result.source = "demo_csv"
            /\ result.count = want
            /\ Len(result.results) = want
            /\ \A j \in 1..want : result.results[j] = load_comps[NthMatch(j)]

\* C6 witness: an upper-case keyword, three rows returned, the third of
\* them the fourth row of the table (the third row does not match) and
\* further matching rows left out.
C6_Witness ==
    /\ pc = "returned"
    /\ tableRead
    /\ keyword = Some(<<"A", "B", "C">>)
    /\ result.count = 3
    /\ result.results[3] = load_comps[4]
    /\ Cardinality(MatchingRows) > 3

\* C7: mortgage_summary raises invalid-input exactly when one of its eight
\* arguments is negative, or years < 1, or down_payment > price.
C7_MortgageRaisesIffInvalid ==
    calc.op = "mortgage_summary" =>
        LET a == calc.args
        IN  (calc.outcome = "raised") <=>
                \/ a.price < 0
                \/ a.down_payment < 0
                \/ a.rate_percent < 0
                \/ a.years < 0
                \/ a.taxes_month < 0
                \/ a.insurance_month < 0
                \/ a.hoa_month < 0
                \/ a.rent_month < 0
                \/ a.years < 1
                \/ a.down_payment > a.price

\* C7 witness: price 0 with down payment 0 and rate 0 was accepted.
C7_Witness ==
    /\ calc.op = "mortgage_summary"
    /\ calc.outcome = "returned"
    /\ calc.args.price = 0
    /\ calc.args.down_payment = 0
    /\ calc.args.rate_percent = 0

MortgageReturned == calc.op = "mortgage_summary" /\ calc.outcome = "returned"

\* C8 as stated: loan_amount equals price - down_payment, and ltv_percent
\* equals loan_amount / price * 100 (100 exactly when down_payment = 0, 0
\* exactly when down_payment = price), 0 when price = 0.  loan_amount is in
\* cents and the arguments in mills; ltv_percent is in hundredths.
C8_LtvExact ==
    MortgageReturned =>
        LET a == calc.args
            r == calc.res
        IN  /\ r.loan_amount * 10 = a.price - a.down_payment
            /\ r.loan_amount >= 0
            /\ r.ltv_percent >= 0 /\ r.ltv_percent <= 10000
            /\ a.price > 0 =>
                  /\ r.ltv_percent * a.price = (a.price - a.down_payment) * 10000
                  /\ (r.ltv_percent = 10000) <=> (a.down_payment = 0)
                  /\ (r.ltv_percent = 0) <=> (a.down_payment = a.price)
            /\ a.price = 0 => r.ltv_percent = 0

\* C8 as amended: loan_amount is price - down_payment rounded to the cent,
\* and ltv_percent is loan / price * 100 rounded to 2 decimals: both within
\* half a unit of the exact value, ltv_percent in [0, 100], 100 when
\* down_payment = 0, 0 when down_payment = price, 0 when price = 0.
C8_LtvRounded ==
    MortgageReturned =>
        LET a == calc.args
            r == calc.res
        IN  /\ Abs(r.loan_amount * 10 - (a.price - a.down_payment)) <= 5
            /\ r.loan_amount >= 0
            /\ r.ltv_percent >= 0 /\ r.ltv_percent <= 10000
            /\ a.price > 0 =>
                  /\ 2 * Abs(r.ltv_percent * a.price
                             - (a.price - a.down_payment) * 10000) <= a.price
                  /\ a.down_payment = 0 => r.ltv_percent = 10000
                  /\ a.down_payment = a.price => r.ltv_percent = 0
            /\ a.price = 0 => r.ltv_percent = 0

\* C8 witness: price 3 and down payment 1 returned an ltv_percent of 66.67.
C8_Witness ==
    /\ MortgageReturned
    /\ calc.args.price = 3000
    /\ calc.args.down_payment = 1000
    /\ calc.res.loan_amount = 200
    /\ calc.res.ltv_percent = 6667

\* What the claim says rent_vs_price rejects.
RentRejected(a) ==
    \/ a.rent_month < 0
    \/ a.target_cap_rate <= 0
    \/ a.target_cap_rate > 2500
    \/ a.expense_ratio < 0
    \/ a.expense_ratio >= 1000

\* rent_month * (1 - expense_ratio) * 12, in millionths of a dollar.
ExactNoi(a) == a.rent_month * (1000 - a.expense_ratio) * 12

\* C9 as stated: rent_vs_price raises exactly on rent_month < 0, a cap rate
\* outside (0, 25] or an expense ratio outside [0, 1), and otherwise returns
\* noi = rent_month * (1 - expense_ratio) * 12 and implied_value =
\* noi / (target_cap_rate / 100), both non-negative, both 0 for rent 0.
C9_RentExact ==
    calc.op = "rent_vs_price" =>
        LET a == calc.args
        IN  /\ (calc.outcome = "raised") <=> RentRejected(a)
            /\ calc.outcome = "returned" =>
                  /\ calc.res.noi * 10000 = ExactNoi(a)
                  /\ calc.res.implied_value * a.target_cap_rate = ExactNoi(a)
                  /\ calc.res.noi >= 0
                  /\ calc.res.implied_value >= 0
                  /\ a.rent_month = 0 =>
                        (calc.res.noi = 0 /\ calc.res.implied_value = 0)

\* C9 as amended: the same, with noi and implied_value each the exact value
\* rounded to the cent (within half a cent of it).
C9_RentRounded ==
    calc.op = "rent_vs_price" =>
        LET a == calc.args
        IN  /\ (calc.outcome = "raised") <=> RentRejected(a)
            /\ calc.outcome = "returned" =>
                  /\ Abs(calc.res.noi * 10000 - ExactNoi(a)) <= 5000
                  /\ 2 * Abs(calc.res.implied_value * a.target_cap_rate
                             - ExactNoi(a)) <= a.target_cap_rate
                  /\ calc.res.noi >= 0
                  /\ calc.res.implied_value >= 0
                  /\ a.rent_month = 0 =>
                        (calc.res.noi = 0 /\ calc.res.implied_value = 0)

\* C9 witness: rent 1, cap rate 25 (the accepted end of the interval) and
\* expense ratio 0.333 returned noi 8.00, the exact value being 8.004.
C9_Witness ==
    /\ calc.op = "rent_vs_price"
    /\ calc.outcome = "returned"
    /\ calc.args.rent_month = 1000
    /\ calc.args.target_cap_rate = 2500
    /\ calc.args.expense_ratio = 333
    /\ calc.res.noi = 800

KeySet(source) ==
    IF source = "attom" THEN ATTOM_KEY_SET ELSE ESTATED_KEY_SET

\* C10: once the UI has started, a find_comps call it makes never skips,
\* for lack of a credential, a source whose key the UI reports as set.
C10_NoSkipWhenKeyReported ==
    uiPc = "ready" =>
        \A i \in 1..Len(attempts) :
            attempts[i].outcome = "skipped" => ~KeySet(attempts[i].source)

====
